---- MODULE Spec2Model ----
(***************************************************************************)
(* server.py: a static file server on port 8000 whose request handler      *)
(* subclasses http.server.SimpleHTTPRequestHandler and overrides           *)
(* end_headers to add three no-cache headers, run by a plain               *)
(* socketserver.TCPServer.                                                 *)
(*                                                                         *)
(* The module models the script together with the CPython 3.11 library     *)
(* code it inherits and calls (http/server.py, socketserver.py,            *)
(* posixpath.py): the behaviour of send_header, super().end_headers(),     *)
(* TCPServer(...) and serve_forever() is what those library functions do.  *)
(*                                                                         *)
(* Strings that the code splits are represented by their parts: a request  *)
(* line is the sequence of its whitespace-separated words, a URL path is   *)
(* looked up in UrlPaths for its '/'-separated components.                 *)
(***************************************************************************)
EXTENDS Integers, Sequences, FiniteSets, TLC

(***************************************************************************)
(* State.                                                                  *)
(*   pc[p]      where process p is in server.py: "new" not started,        *)
(*              "bound" inside the with block before print, "printed"      *)
(*              before serve_forever, "serving" in the select loop of      *)
(*              serve_forever, "handling" inside process_request,          *)
(*              "exited" after the constructor raised, "killed"            *)
(*   bound[p]   the outcome of p's TCPServer(("", PORT), ...) call         *)
(*   portOwner  the process whose socket is bound to port 8000, or 0       *)
(*   stdout[p]  the lines p has printed                                    *)
(*   queue[p]   the connections waiting in p's listening socket            *)
(*   nconn      the number of client connections opened so far             *)
(*   conns      the open connections: the process each reached, its state, *)
(*              the request read from it and the handler instance's        *)
(*              request_version, command, _headers_buffer and pending body *)
(*   wire       what has been written to the open connections, in order    *)
(*   served     the exchanges that ran to completion: the request, the     *)
(*              status code the handler answered with, the response the    *)
(*              client received, and whether this very exchange has been   *)
(*              seen more than once                                        *)
(***************************************************************************)
VARIABLES pc, bound, portOwner, stdout, queue, nconn, conns, wire, served

vars == <<pc, bound, portOwner, stdout, queue, nconn, conns, wire, served>>

(***************************************************************************)
(* Bounds of the model.                                                    *)
(***************************************************************************)
\* number of client connections opened over the whole run
MaxConns == 2

(***************************************************************************)
(* Program constants.                                                      *)
(***************************************************************************)
PORT == 8000

\* the two processes running server.py on the same host
Procs == {1, 2}

\* BaseHTTPRequestHandler.default_request_version
default_request_version == "HTTP/0.9"

\* BaseHTTPRequestHandler.protocol_version (not overridden by server.py)
protocol_version == "HTTP/1.0"

\* the line print() writes at startup
Banner == "Server running at http://localhost:" \o ToString(PORT) \o "/"

(***************************************************************************)
(* The file system the server runs on.  The process's working directory    *)
(* (SimpleHTTPRequestHandler.directory = os.getcwd()) is /srv; it holds    *)
(* index.html and an empty directory sub.  /secret.txt lies outside it.    *)
(* Paths are sequences of names from the file system root.                 *)
(***************************************************************************)
directory == <<"srv">>

Dirs == {<<>>, <<"srv">>, <<"srv", "sub">>}

Files == (<<"srv", "index.html">> :> "INDEX_BYTES") @@ (<<"secret.txt">> :> "SECRET_BYTES")

\* what the kernel does with a path: "." stays, ".." goes to the parent
RECURSIVE OsResolve(_, _)
OsResolve(segs, acc) ==
  IF segs = <<>> THEN acc
  ELSE LET s == Head(segs) IN
       IF s = "." THEN OsResolve(Tail(segs), acc)
       ELSE IF s = ".."
            THEN OsResolve(Tail(segs), IF acc = <<>> THEN acc ELSE SubSeq(acc, 1, Len(acc) - 1))
            ELSE OsResolve(Tail(segs), Append(acc, s))

\* os.path.isdir
isdir(path) == OsResolve(path.segs, <<>>) \in Dirs

\* os.path.isfile and open(path, 'rb') succeeding: a regular file; a trailing
\* slash on a regular file makes the kernel answer ENOTDIR
isfile(path) == OsResolve(path.segs, <<>>) \in DOMAIN Files /\ ~path.slash

\* the bytes read from an open file
FileBytes(path) == Files[OsResolve(path.segs, <<>>)]

\* the content lying outside the served directory
OutsideBytes == {Files[f] : f \in {g \in DOMAIN Files : SubSeq(g, 1, Len(directory)) # directory}}

(***************************************************************************)
(* URL paths a client may put on the request line, with the components     *)
(* str.split('/') finds in them (the empty component before a leading '/'  *)
(* and after a trailing '/' are kept as abs and slash).                    *)
(***************************************************************************)
UrlPaths ==
  ("/index.html" :> [abs |-> TRUE, segs |-> <<"index.html">>, slash |-> FALSE]) @@
  ("/" :> [abs |-> TRUE, segs |-> <<>>, slash |-> TRUE]) @@
  ("/does-not-exist.xyz" :> [abs |-> TRUE, segs |-> <<"does-not-exist.xyz">>, slash |-> FALSE]) @@
  ("/sub" :> [abs |-> TRUE, segs |-> <<"sub">>, slash |-> FALSE]) @@
  ("/sub/" :> [abs |-> TRUE, segs |-> <<"sub">>, slash |-> TRUE]) @@
  ("/index.html/" :> [abs |-> TRUE, segs |-> <<"index.html">>, slash |-> TRUE]) @@
  ("/../secret.txt" :> [abs |-> TRUE, segs |-> <<"..", "secret.txt">>, slash |-> FALSE]) @@
  ("/sub/../../secret.txt" :> [abs |-> TRUE, segs |-> <<"sub", "..", "..", "secret.txt">>, slash |-> FALSE]) @@
  ("/%2e%2e/secret.txt" :> [abs |-> TRUE, segs |-> <<"%2e%2e", "secret.txt">>, slash |-> FALSE]) @@
  ("../secret.txt" :> [abs |-> FALSE, segs |-> <<"..", "secret.txt">>, slash |-> FALSE])

\* the request paths that try to leave the served directory
TraversalPaths == {"/../secret.txt", "/sub/../../secret.txt", "/%2e%2e/secret.txt", "../secret.txt"}

\* urllib.parse.unquote on one component: %2e is '.'
unquote(seg) == IF seg = "%2e%2e" THEN ".." ELSE IF seg = "%2e" THEN "." ELSE seg

\* posixpath.normpath on the components: '' and '.' are dropped, '..' removes
\* the component before it, is dropped at the root of an absolute path and is
\* kept at the start of a relative one
RECURSIVE normpath(_, _, _)
normpath(comps, initial_slashes, new_comps) ==
  IF comps = <<>> THEN new_comps
  ELSE LET comp == Head(comps) IN
       IF comp \in {"", "."} THEN normpath(Tail(comps), initial_slashes, new_comps)
       ELSE IF \/ comp # ".."
               \/ (~initial_slashes /\ new_comps = <<>>)
               \/ (new_comps # <<>> /\ new_comps[Len(new_comps)] = "..")
            THEN normpath(Tail(comps), initial_slashes, Append(new_comps, comp))
            ELSE IF new_comps # <<>>
                 THEN normpath(Tail(comps), initial_slashes, SubSeq(new_comps, 1, Len(new_comps) - 1))
                 ELSE normpath(Tail(comps), initial_slashes, new_comps)

\* the loop of translate_path: components that are not a simple name are ignored
IgnoredWord(word) == word \in {".", ".."}

\* SimpleHTTPRequestHandler.translate_path
translate_path(path) ==
  LET u == UrlPaths[path]
      unq == [i \in 1..Len(u.segs) |-> unquote(u.segs[i])]
      words == normpath(unq, u.abs, <<>>)
      kept == SelectSeq(words, LAMBDA w : ~IgnoredWord(w))
  IN [segs |-> directory \o kept, slash |-> u.slash]

(***************************************************************************)
(* Response lines.  Every item written to a connection is a record k, n, v *)
(* of strings: the status line, a header name: value, the blank line that  *)
(* ends the header block, or the body.                                     *)
(***************************************************************************)
StatusLine(code) == [k |-> "status", n |-> protocol_version, v |-> ToString(code)]

Header(keyword, value) == [k |-> "header", n |-> keyword, v |-> value]

EndOfHeaders == [k |-> "end", n |-> "", v |-> ""]

Body(kind, bytes) == [k |-> "body", n |-> kind, v |-> bytes]

\* BaseHTTPRequestHandler.send_response_only: nothing for an HTTP/0.9 response
send_response_only(buf, request_version, code) ==
  IF request_version # "HTTP/0.9" THEN Append(buf, StatusLine(code)) ELSE buf

\* BaseHTTPRequestHandler.send_header: nothing for an HTTP/0.9 response
send_header(buf, request_version, keyword, value) ==
  IF request_version # "HTTP/0.9" THEN Append(buf, Header(keyword, value)) ELSE buf

\* BaseHTTPRequestHandler.send_response: status line, Server and Date
send_response(buf, request_version, code) ==
  send_header(
    send_header(send_response_only(buf, request_version, code), request_version, "Server", "SimpleHTTP"),
    request_version, "Date", "now")

\* BaseHTTPRequestHandler.end_headers and flush_headers: for anything but an
\* HTTP/0.9 response the blank line is appended and the buffer is written to
\* the connection and emptied.  The result is <<bytes written, new buffer>>.
base_end_headers(buf, request_version) ==
  IF request_version # "HTTP/0.9"
  THEN <<Append(buf, EndOfHeaders), <<>>>>
  ELSE <<(<<>>), buf>>

\* an end_headers that lets the base class end the header block first and
\* adds its three headers afterwards
end_headers_late(buf, request_version) ==
  LET r == base_end_headers(buf, request_version)
      b1 == send_header(r[2], request_version, "Cache-Control", "no-store, no-cache, must-revalidate, max-age=0")
      b2 == send_header(b1, request_version, "Pragma", "no-cache")
      b3 == send_header(b2, request_version, "Expires", "0")
  IN <<r[1], b3>>

\* an end_headers that adds its three headers to the first response of the
\* process only
end_headers_once(buf, request_version) ==
  LET b1 == send_header(buf, request_version, "Cache-Control", "no-store, no-cache, must-revalidate, max-age=0")
      b2 == send_header(b1, request_version, "Pragma", "no-cache")
      b3 == send_header(b2, request_version, "Expires", "0")
  IN base_end_headers(IF served = {} THEN b3 ELSE buf, request_version)

\* NoCacheHTTPRequestHandler.end_headers
end_headers(buf, request_version) ==
  LET b1 == send_header(buf, request_version, "Cache-Control", "no-store, no-cache, must-revalidate, max-age=0")
      b2 == send_header(b1, request_version, "Pragma", "no-cache")
      b3 == send_header(b2, request_version, "Expires", "0")
  IN base_end_headers(b3, request_version)

(***************************************************************************)
(* Requests.  kind tells what readline(65537) and the header parser meet:  *)
(* "line" a request line of at most 65536 bytes followed by headers,       *)
(* "toolong" a longer line, "eof" a connection closed before any byte,     *)
(* "hdrlong" a request line followed by an over-long header line.  ims     *)
(* says that the headers carry an If-Modified-Since date not earlier than  *)
(* the file's modification time (and no If-None-Match).                    *)
(***************************************************************************)
Req(words, kind, ims) == [words |-> words, kind |-> kind, ims |-> ims]

NoReq == Req(<<>>, "none", FALSE)

Requests ==
  {Req(<<"GET", p, "HTTP/1.1">>, "line", FALSE) :
     p \in {"/index.html", "/does-not-exist.xyz", "/sub", "/sub/", "/", "/index.html/",
            "/sub/../../secret.txt", "/%2e%2e/secret.txt", "../secret.txt"}} \cup
  {Req(<<"GET", p>>, "line", FALSE) : p \in {"/index.html", "/does-not-exist.xyz", "/../secret.txt"}} \cup
  {Req(<<"HEAD", "/index.html", "HTTP/1.1">>, "line", FALSE),
   Req(<<"GET", "/index.html", "HTTP/1.1">>, "line", TRUE),
   Req(<<"HEAD", "/index.html">>, "line", FALSE),
   Req(<<"POST", "/index.html", "HTTP/1.1">>, "line", FALSE),
   Req(<<"GET", "/index.html", "HTTP/2.0">>, "line", FALSE),
   Req(<<"GET", "/index.html", "FOO/1.1">>, "line", FALSE),
   Req(<<"GARBAGE">>, "line", FALSE),
   Req(<<"GET", "/index.html", "extra", "HTTP/1.1">>, "line", FALSE),
   Req(<<"GET", "/index.html", "HTTP/1.1">>, "hdrlong", FALSE),
   Req(<<"GET", "/index.html", "HTTP/1.1">>, "toolong", FALSE),
   Req(<<>>, "line", FALSE),
   Req(<<>>, "eof", FALSE)}

\* parse_request's reading of the version word: <<major, minor>>, or <<>> for
\* the ValueError of a word that is not HTTP/<int>.<int>
version_number(version) ==
  IF version = "HTTP/1.1" THEN <<1, 1>>
  ELSE IF version = "HTTP/1.0" THEN <<1, 0>>
  ELSE IF version = "HTTP/2.0" THEN <<2, 0>>
  ELSE <<>>

\* what a handler has decided when it reaches end_headers (or returns without
\* answering): the version and command it recorded, the status code, the
\* headers buffered so far and the body to write after the header block
Answer(request_version, command, code, buf, body) ==
  [respond |-> TRUE, request_version |-> request_version, command |-> command,
   code |-> code, buf |-> buf, body |-> body]

NoAnswer(request_version, command) ==
  [respond |-> FALSE, request_version |-> request_version, command |-> command,
   code |-> 0, buf |-> <<>>, body |-> <<>>]

\* BaseHTTPRequestHandler.send_error, up to its call of end_headers
send_error(request_version, command, code) ==
  LET b1 == send_header(send_response(<<>>, request_version, code), request_version, "Connection", "close")
      hasBody == code >= 200 /\ code \notin {204, 205, 304}
      b2 == IF hasBody
            THEN send_header(send_header(b1, request_version, "Content-Type", "text/html;charset=utf-8"),
                             request_version, "Content-Length", "len(error page)")
            ELSE b1
  IN Answer(request_version, command, code, b2,
            IF command # "HEAD" /\ hasBody THEN <<Body("error page", ToString(code))>> ELSE <<>>)

\* SimpleHTTPRequestHandler.send_head (with list_directory), up to end_headers;
\* do_GET copies the file it returns to the connection, do_HEAD closes it
send_head(request_version, command, urlpath, ims) ==
  LET path == translate_path(urlpath)
      index == [segs |-> Append(path.segs, "index.html"), slash |-> FALSE]
      found == IF isdir(path) /\ isfile(index) THEN index ELSE path
      body(b) == IF command = "GET" THEN <<b>> ELSE <<>>
  IN IF isdir(path) /\ ~UrlPaths[urlpath].slash
     THEN Answer(request_version, command, 301,
                 send_header(send_header(send_response(<<>>, request_version, 301),
                                         request_version, "Location", "urlpath + /"),
                             request_version, "Content-Length", "0"),
                 <<>>)
     ELSE IF isdir(path) /\ ~isfile(index)
     THEN Answer(request_version, command, 200,
                 send_header(send_header(send_response(<<>>, request_version, 200),
                                         request_version, "Content-type", "text/html; charset=utf-8"),
                             request_version, "Content-Length", "len(listing)"),
                 body(Body("listing", "sub")))
     ELSE IF found.slash \/ ~isfile(found)
     THEN send_error(request_version, command, 404)
     ELSE IF ims
     THEN Answer(request_version, command, 304, send_response(<<>>, request_version, 304), <<>>)
     ELSE Answer(request_version, command, 200,
                 send_header(send_header(send_header(send_response(<<>>, request_version, 200),
                                                     request_version, "Content-type", "guess_type(path)"),
                                         request_version, "Content-Length", "len(file)"),
                             request_version, "Last-Modified", "mtime"),
                 body(Body("file", FileBytes(found))))

\* BaseHTTPRequestHandler.parse_request followed by the dispatch of
\* handle_one_request to do_GET / do_HEAD
parse_request(req) ==
  LET words == req.words
      version == words[Len(words)]
      vn == version_number(version)
      request_version == IF Len(words) >= 3 THEN version ELSE default_request_version
  IN IF Len(words) = 0 THEN NoAnswer(default_request_version, "None")
     ELSE IF Len(words) >= 3 /\ vn = <<>>
     THEN send_error(default_request_version, "None", 400)
     ELSE IF Len(words) >= 3 /\ vn[1] >= 2
     THEN send_error(default_request_version, "None", 505)
     ELSE IF ~(2 <= Len(words) /\ Len(words) <= 3)
     THEN send_error(request_version, "None", 400)
     ELSE IF Len(words) = 2 /\ words[1] # "GET"
     THEN send_error(request_version, "None", 400)
     ELSE IF req.kind = "hdrlong"
     THEN send_error(request_version, words[1], 431)
     ELSE IF words[1] \notin {"GET", "HEAD"}
     THEN send_error(request_version, words[1], 501)
     ELSE send_head(request_version, words[1], words[2], req.ims)

\* BaseHTTPRequestHandler.handle_one_request
handle_one_request(req) ==
  IF req.kind = "toolong" THEN send_error("", "", 414)
  ELSE IF req.kind = "eof" THEN NoAnswer(default_request_version, "None")
  ELSE parse_request(req)

Init ==
  /\ pc = [p \in Procs |-> "new"]
  /\ bound = [p \in Procs |-> "none"]
  /\ portOwner = 0
  /\ stdout = [p \in Procs |-> <<>>]
  /\ queue = [p \in Procs |-> <<>>]
  /\ nconn = 0
  /\ conns = <<>>
  /\ wire = <<>>
  /\ served = {}

\* a server_bind with allow_reuse_port set: the second bind succeeds
server_bind_reuse(owner) == "ok"

\* TCPServer.server_bind: socket.bind fails with EADDRINUSE when another
\* socket is bound to the port (allow_reuse_address and allow_reuse_port are
\* False)
server_bind(owner) == IF owner = 0 THEN "ok" ELSE "fail"

\* a script that prints its banner before it constructs the server
Construct_print_first(p) ==
  /\ pc[p] = "new"
  /\ bound' = [bound EXCEPT ![p] = server_bind(portOwner)]
  /\ stdout' = [stdout EXCEPT ![p] = Append(@, Banner)]
  /\ IF server_bind(portOwner) = "ok"
     THEN /\ portOwner' = p
          /\ pc' = [pc EXCEPT ![p] = "bound"]
     ELSE /\ portOwner' = portOwner
          /\ pc' = [pc EXCEPT ![p] = "exited"]
  /\ UNCHANGED <<queue, nconn, conns, wire, served>>

\* line 13: TCPServer(("", PORT), NoCacheHTTPRequestHandler) binds and listens;
\* when bind raises, the constructor closes the socket and re-raises, and the
\* script ends with the traceback before the with block is entered
Construct(p) ==
  /\ pc[p] = "new"
  /\ bound' = [bound EXCEPT ![p] = server_bind(portOwner)]
  /\ IF server_bind(portOwner) = "ok"
     THEN /\ portOwner' = p
          /\ pc' = [pc EXCEPT ![p] = "bound"]
     ELSE /\ portOwner' = portOwner
          /\ pc' = [pc EXCEPT ![p] = "exited"]
  /\ UNCHANGED <<stdout, queue, nconn, conns, wire, served>>

\* line 14: print(f"Server running at http://localhost:{PORT}/")
PrintBanner(p) ==
  /\ pc[p] = "bound"
  /\ stdout' = [stdout EXCEPT ![p] = Append(@, Banner)]
  /\ pc' = [pc EXCEPT ![p] = "printed"]
  /\ UNCHANGED <<bound, portOwner, queue, nconn, conns, wire, served>>

\* line 15: httpd.serve_forever() enters its select loop
ServeForever(p) ==
  /\ pc[p] = "printed"
  /\ pc' = [pc EXCEPT ![p] = "serving"]
  /\ UNCHANGED <<bound, portOwner, stdout, queue, nconn, conns, wire, served>>

\* a client connects to port 8000: the kernel queues the connection on the
\* listening socket of the process bound to the port
Connect ==
  /\ portOwner # 0
  /\ nconn < MaxConns
  /\ nconn' = nconn + 1
  /\ conns' = conns @@ (nconn + 1 :>
                 [owner |-> portOwner, st |-> "queued", req |-> NoReq,
                  request_version |-> default_request_version, command |-> "None",
                  code |-> 0, buf |-> <<>>, body |-> <<>>])
  /\ queue' = [queue EXCEPT ![portOwner] = Append(@, nconn + 1)]
  /\ UNCHANGED <<pc, bound, portOwner, stdout, wire, served>>

\* the process_request of ThreadingMixIn: the handler runs in a new thread
\* and the select loop goes on
process_request_thread == "serving"

\* BaseServer.process_request of the plain TCPServer calls finish_request in
\* the serving thread: the select loop is left until the handler returns
process_request == "handling"

\* serve_forever: select reports the listening socket readable,
\* _handle_request_noblock accepts the connection and finish_request
\* instantiates the handler (a new object, its _headers_buffer not yet set)
Accept(p) ==
  /\ pc[p] = "serving"
  /\ queue[p] # <<>>
  /\ LET c == Head(queue[p]) IN
       conns' = [conns EXCEPT ![c].st = "accepted", ![c].buf = <<>>]
  /\ queue' = [queue EXCEPT ![p] = Tail(@)]
  /\ pc' = [pc EXCEPT ![p] = process_request]
  /\ UNCHANGED <<bound, portOwner, stdout, nconn, wire, served>>

\* the process that runs the handler of connection c is alive
Running(c) == pc[conns[c].owner] \in {"serving", "handling"}

\* handle -> handle_one_request: the request is read and parsed and the
\* response is prepared up to the call of end_headers
ReadRequest(c) ==
  /\ c \in DOMAIN conns
  /\ conns[c].st = "accepted"
  /\ Running(c)
  /\ \E req \in Requests :
       LET a == handle_one_request(req) IN
         conns' = [conns EXCEPT ![c].req = req,
                                ![c].request_version = a.request_version,
                                ![c].command = a.command,
                                ![c].code = a.code,
                                ![c].buf = conns[c].buf \o a.buf,
                                ![c].body = a.body,
                                ![c].st = IF a.respond THEN "headers" ELSE "finishing"]
  /\ UNCHANGED <<pc, bound, portOwner, stdout, queue, nconn, wire, served>>

\* the items written to connection c, as they go onto the wire
Tagged(c, items) == [i \in 1..Len(items) |-> [c |-> c, item |-> items[i]]]

\* what the client of connection c has received
Received(c) ==
  LET mine == SelectSeq(wire, LAMBDA w : w.c = c)
  IN [i \in 1..Len(mine) |-> mine[i].item]

\* the wire and the open connections once connection c is closed
Closed(c) ==
  /\ wire' = SelectSeq(wire, LAMBDA w : w.c # c)
  /\ conns' = [d \in DOMAIN conns \ {c} |-> conns[d]]

\* self.end_headers(): the override of server.py
EndHeaders(c) ==
  /\ c \in DOMAIN conns
  /\ conns[c].st = "headers"
  /\ Running(c)
  /\ LET r == end_headers(conns[c].buf, conns[c].request_version) IN
       /\ wire' = wire \o Tagged(c, r[1])
       /\ conns' = [conns EXCEPT ![c].buf = r[2],
                                 ![c].st = IF conns[c].body # <<>> THEN "body" ELSE "finishing"]
  /\ UNCHANGED <<pc, bound, portOwner, stdout, queue, nconn, served>>

\* the body follows the header block: send_error's wfile.write(body), or
\* do_GET's copyfile of the file send_head returned
WriteBody(c) ==
  /\ c \in DOMAIN conns
  /\ conns[c].st = "body"
  /\ Running(c)
  /\ wire' = wire \o Tagged(c, conns[c].body)
  /\ conns' = [conns EXCEPT ![c].body = <<>>, ![c].st = "finishing"]
  /\ UNCHANGED <<pc, bound, portOwner, stdout, queue, nconn, served>>

\* handle returns (close_connection is True: protocol_version is HTTP/1.0),
\* finish closes the files, process_request shuts the connection down and
\* returns into the loop of serve_forever
Finish(c) ==
  /\ c \in DOMAIN conns
  /\ conns[c].st = "finishing"
  /\ Running(c)
  /\ LET e == [req |-> conns[c].req, code |-> conns[c].code, resp |-> Received(c)]
         same == {f \in served : f.req = e.req /\ f.code = e.code /\ f.resp = e.resp}
     IN served' = (served \ same) \cup
                  {[req |-> e.req, code |-> e.code, resp |-> e.resp, again |-> same # {}]}
  /\ Closed(c)
  /\ pc' = [pc EXCEPT ![conns[c].owner] = "serving"]
  /\ UNCHANGED <<bound, portOwner, stdout, queue, nconn>>

\* a handle_error that re-raises: the exception ends serve_forever and the
\* process
handle_error_raise == "exited"

\* BaseServer.handle_error prints the traceback of an Exception raised by the
\* handler and returns: _handle_request_noblock goes on with shutdown_request
handle_error == "serving"

\* the client resets the connection while the response is written: the write
\* raises BrokenPipeError / ConnectionResetError out of the handler
WriteRaises(c) ==
  /\ c \in DOMAIN conns
  /\ \/ conns[c].st = "body"
     \/ conns[c].st = "headers" /\ conns[c].request_version # "HTTP/0.9"
  /\ Running(c)
  /\ Closed(c)
  /\ pc' = [pc EXCEPT ![conns[c].owner] = handle_error]
  /\ UNCHANGED <<bound, portOwner, stdout, queue, nconn, served>>

\* the process is terminated from outside (a signal): its sockets are closed
Kill(p) ==
  /\ pc[p] \in {"bound", "printed", "serving", "handling"}
  /\ pc' = [pc EXCEPT ![p] = "killed"]
  /\ portOwner' = IF portOwner = p THEN 0 ELSE portOwner
  /\ queue' = [queue EXCEPT ![p] = <<>>]
  /\ conns' = [d \in {e \in DOMAIN conns : conns[e].owner # p} |-> conns[d]]
  /\ wire' = SelectSeq(wire, LAMBDA w : conns[w.c].owner # p)
  /\ UNCHANGED <<bound, stdout, nconn, served>>

Next ==
  \/ \E p \in Procs : Construct(p)
  \/ \E p \in Procs : PrintBanner(p)
  \/ \E p \in Procs : ServeForever(p)
  \/ Connect
  \/ \E p \in Procs : Accept(p)
  \/ \E c \in 1..MaxConns : ReadRequest(c)
  \/ \E c \in 1..MaxConns : EndHeaders(c)
  \/ \E c \in 1..MaxConns : WriteBody(c)
  \/ \E c \in 1..MaxConns : Finish(c)
  \/ \E c \in 1..MaxConns : WriteRaises(c)
  \/ \E p \in Procs : Kill(p)

Spec == Init /\ [][Next]_vars

\* one step of the handler that the serving thread is running
HandlerStep ==
  \E c \in 1..MaxConns : ReadRequest(c) \/ EndHeaders(c) \/ WriteBody(c) \/ Finish(c)

(***************************************************************************)
(* Vocabulary of the properties.                                           *)
(***************************************************************************)
\* the three override header lines, in the order required
OverrideHeaders ==
  <<Header("Cache-Control", "no-store, no-cache, must-revalidate, max-age=0"),
    Header("Pragma", "no-cache"),
    Header("Expires", "0")>>

OverrideNames == {OverrideHeaders[i].n : i \in 1..3}

\* how many header lines of a response bear the name
CountName(resp, name) ==
  Cardinality({i \in 1..Len(resp) : resp[i].k = "header" /\ resp[i].n = name})

\* each override header occurs exactly once, with its literal value
CarriesOverrides(resp) ==
  \A i \in 1..3 :
    /\ CountName(resp, OverrideHeaders[i].n) = 1
    /\ \E j \in 1..Len(resp) : resp[j] = OverrideHeaders[i]

\* the status code on the status line of a response, 0 when it has none
StatusOf(resp) ==
  IF resp # <<>> /\ resp[1].k = "status" THEN resp[1].v ELSE "0"

BodyOf(resp) == SelectSeq(resp, LAMBDA x : x.k = "body")

OverridesOf(resp) == SelectSeq(resp, LAMBDA x : x.k = "header" /\ x.n \in OverrideNames)

\* a request line that names a method, a path and, if any, an HTTP/1.x version
WellFormed(req) ==
  /\ req.kind = "line"
  /\ \/ Len(req.words) = 2 /\ req.words[1] = "GET"
     \/ Len(req.words) = 3 /\ req.words[3] \in {"HTTP/1.0", "HTTP/1.1"}
  /\ req.words[2] \in DOMAIN UrlPaths

\* where a URL path points when it is read from the served directory, the
\* way a file system reads it
Target(urlpath) ==
  LET u == UrlPaths[urlpath]
  IN OsResolve(directory \o normpath([i \in 1..Len(u.segs) |-> unquote(u.segs[i])], TRUE, <<>>), <<>>)

(***************************************************************************)
(* C1.  Every response the server produces, whatever the method, the path  *)
(* or the status (responses to malformed requests included), has exactly   *)
(* one Cache-Control: no-store, no-cache, must-revalidate, max-age=0,      *)
(* exactly one Pragma: no-cache and exactly one Expires: 0.                *)
(***************************************************************************)
C1_EveryResponseCarriesOverrides ==
  \A e \in served : e.resp # <<>> => CarriesOverrides(e.resp)

(***************************************************************************)
(* C2.  Within a response the override lines appear as Cache-Control,      *)
(* Pragma, Expires, after every header of the base logic, directly before  *)
(* the blank line that ends the header block, and no body byte is written  *)
(* before that blank line.  Stated of what each client has received so far *)
(* and of every completed response: wherever a header line or the end of   *)
(* the header block is on the wire, the block is complete and has this     *)
(* shape.                                                                  *)
(***************************************************************************)
OverridesLast(resp) ==
  (\E i \in 1..Len(resp) : resp[i].k \in {"status", "header", "end"}) =>
    \E t \in 4..Len(resp) :
      /\ resp[t] = EndOfHeaders
      /\ resp[t - 3] = OverrideHeaders[1]
      /\ resp[t - 2] = OverrideHeaders[2]
      /\ resp[t - 1] = OverrideHeaders[3]
      /\ \A i \in 1..(t - 4) :
           /\ resp[i].k \in {"status", "header"}
           /\ resp[i].n \notin OverrideNames
      /\ \E i \in 1..(t - 4) : resp[i].k = "header"
      /\ \A i \in (t + 1)..Len(resp) : resp[i].k = "body"

C3_MissingPathIs404WithOverrides ==
  \A e \in served :
    (/\ WellFormed(e.req)
     /\ e.req.words[1] \in {"GET", "HEAD"}
     /\ Target(e.req.words[2]) \notin Dirs \cup DOMAIN Files)
    => /\ e.code = 404
       /\ CarriesOverrides(e.resp)

(***************************************************************************)
(* C4.  A request for a file that exists under the served root (a GET, not *)
(* made conditional) is answered with status 200, exactly the file's bytes *)
(* as the body, and the three override headers.                            *)
(***************************************************************************)
C4_ExistingFileIs200WithBytesAndOverrides ==
  \A e \in served :
    (/\ WellFormed(e.req)
     /\ e.req.words[1] = "GET"
     /\ ~e.req.ims
     /\ Target(e.req.words[2]) \in DOMAIN Files
     /\ ~UrlPaths[e.req.words[2]].slash)
    => /\ e.code = 200
       /\ BodyOf(e.resp) = <<Body("file", Files[Target(e.req.words[2])])>>
       /\ CarriesOverrides(e.resp)

(***************************************************************************)
(* C5.  A request whose path tries to leave the served root never gets     *)
(* content from outside the root, and whatever the status its response     *)
(* carries the three override headers.                                     *)
(***************************************************************************)
C5_TraversalStaysInsideWithOverrides ==
  \A e \in served :
    (/\ WellFormed(e.req)
     /\ e.req.words[1] \in {"GET", "HEAD"}
     /\ e.req.words[2] \in TraversalPaths)
    => /\ \A i \in 1..Len(e.resp) : e.resp[i].k = "body" => e.resp[i].v \notin OutsideBytes
       /\ CarriesOverrides(e.resp)

FailedBindIsFatal ==
  \A p \in Procs :
    bound[p] = "fail" =>
      /\ pc[p] = "exited"
      /\ stdout[p] = <<>>
      /\ queue[p] = <<>>
      /\ portOwner # p
      /\ \A c \in DOMAIN conns : conns[c].owner # p

SecondConstructFails ==
  \A p \in Procs :
    (pc[p] = "new" /\ pc'[p] # "new" /\ portOwner # 0) =>
      /\ bound'[p] = "fail"
      /\ pc'[p] = "exited"
      /\ portOwner' = portOwner
      /\ \A q \in Procs \ {p} : pc'[q] = pc[q]
      /\ UNCHANGED <<stdout, queue, nconn, conns, wire, served>>

\* C7: a failed bind is fatal and silent, and constructing a server while the
\* port is held always fails and leaves the holder untouched
C7_SecondInstanceFailsFast == []FailedBindIsFatal /\ [][SecondConstructFails]_vars

\* a second process has failed to bind while the first one is handling a request
C7_Witness ==
  \E p, q \in Procs :
    /\ bound[p] = "fail"
    /\ pc[p] = "exited"
    /\ pc[q] = "handling"
    /\ portOwner = q

(***************************************************************************)
(* C8.  The startup line is printed at most once in the life of a process, *)
(* only after port 8000 has been bound, and it has been printed by the     *)
(* time the process serves: before it accepts its first connection.        *)
(***************************************************************************)
C8_BannerOnceAfterBindBeforeAccept ==
  \A p \in Procs :
    /\ Len(stdout[p]) <= 1
    /\ stdout[p] # <<>> => (stdout[p] = <<"Server running at http://localhost:8000/">> /\ bound[p] = "ok")
    /\ pc[p] \in {"printed", "serving", "handling"} => stdout[p] # <<>>
    /\ pc[p] = "bound" => stdout[p] = <<>>
    /\ \A c \in DOMAIN conns : (conns[c].owner = p /\ conns[c].st # "queued") => stdout[p] # <<>>
    /\ (served # {} /\ bound[p] = "ok" /\ \A q \in Procs \ {p} : bound[q] # "ok") => stdout[p] # <<>>

\* a process that printed its line is handling a connection
C8_Witness ==
  \E p \in Procs : \E c \in DOMAIN conns :
    /\ stdout[p] = <<Banner>>
    /\ pc[p] = "handling"
    /\ conns[c].owner = p
    /\ conns[c].st = "headers"

(***************************************************************************)
(* C9.  A per-request error (a missing file, a malformed request) is       *)
(* answered with an error status and ends that exchange only: no step but  *)
(* the killing of the process takes it out of the serving loop; a handler  *)
(* always has a next step and only moves forward; and however an exchange  *)
(* ends, the process is back in its accept loop, where a waiting           *)
(* connection can be accepted.                                             *)
(***************************************************************************)
ErrorRequest(req) ==
  \/ req.kind \in {"toolong", "hdrlong"}
  \/ req.kind = "line" /\ req.words # <<>> /\ ~WellFormed(req)
  \/ /\ WellFormed(req)
     /\ req.words[1] \in {"GET", "HEAD"}
     /\ Target(req.words[2]) \notin Dirs \cup DOMAIN Files

ErrorsAnswered == \A e \in served : ErrorRequest(e.req) => e.code >= 400

NeverStuck ==
  \A p \in Procs :
    /\ pc[p] = "handling" => ENABLED HandlerStep
    /\ (pc[p] = "serving" /\ queue[p] # <<>>) => ENABLED Accept(p)

StaysInLoop ==
  \A p \in Procs :
    pc[p] \in {"serving", "handling"} => (pc'[p] \in {"serving", "handling"} \/ Kill(p))

Rank(st) ==
  IF st = "queued" THEN 0
  ELSE IF st = "accepted" THEN 1
  ELSE IF st = "headers" THEN 2
  ELSE IF st = "body" THEN 3
  ELSE 4

ExchangeEndsInLoop ==
  \A c \in DOMAIN conns :
    /\ c \in DOMAIN conns' => Rank(conns'[c].st) >= Rank(conns[c].st)
    /\ (c \in DOMAIN conns' /\ conns'[c] # conns[c]) => Rank(conns'[c].st) > Rank(conns[c].st)
    /\ (c \notin DOMAIN conns' /\ conns[c].st # "queued") =>
         \/ pc'[conns[c].owner] = "serving"
         \/ Kill(conns[c].owner)

Active(p) == {c \in DOMAIN conns : conns[c].owner = p /\ conns[c].st # "queued"}

\* C10: at most one active handler per process, no interleaved responses
C10_OneConnectionAtATime ==
  /\ \A p \in Procs :
       /\ Cardinality(Active(p)) <= 1
       /\ pc[p] = "serving" => Active(p) = {}
       /\ pc[p] = "handling" => Cardinality(Active(p)) = 1
  /\ \A i, j, k \in 1..Len(wire) :
       (i < j /\ j < k /\ wire[i].c = wire[k].c) => wire[j].c = wire[i].c

\* a connection waits in the queue while another one is in the middle of its
\* response
C10_Witness ==
  \E p \in Procs : \E c \in DOMAIN conns :
    /\ pc[p] = "handling"
    /\ queue[p] # <<>>
    /\ conns[c].owner = p
    /\ conns[c].st = "body"
    /\ Received(c) # <<>>

====
